---- MODULE Spec2Model ----
(***************************************************************************)
(* A state-machine model of the two review crawlers of the repository:     *)
(*   - scrape_reviews (src/imdb_scraper.py): token-based pagination, one   *)
(*     secondary "full review" fetch per review container;                 *)
(*   - ShopCluesScraper (src/shopcules_scraper.py): counter-based          *)
(*     pagination over a JSON endpoint.                                    *)
(* The transport (requests.get) and the markup parser (BeautifulSoup) are  *)
(* the environment: every response is a nondeterministic choice from a     *)
(* bounded set of documents, described by the nodes the selectors of the   *)
(* code look for.                                                          *)
(***************************************************************************)
EXTENDS Integers, Sequences, FiniteSets, TLC

VARIABLES
    prog,              \* which program runs: "imdb" or "shop"
    pc,                \* position of the single thread of control
    \* ---- scrape_reviews (imdb_scraper.py) ----
    subject,           \* argument movie_id_or_url, a sequence of characters
    max_pages,         \* argument max_pages
    movie_id,          \* local movie_id
    movie_title,       \* local movie_title
    pages_scraped,     \* local pages_scraped
    pagination_key,    \* local pagination_key
    url,               \* local url: the target of the next page request
    review_containers, \* local review_containers of the current page
    container_idx,     \* position of the for loop over review_containers
    review_data,       \* local review_data, the record under construction
    permalink,         \* local permalink
    reviews,           \* local reviews, the accumulated list
    \* ---- ShopCluesScraper (shopcules_scraper.py) ----
    self_url,          \* self.url, a sequence of characters
    self_reviews,      \* self.reviews
    product_data,      \* self.product_data
    all_reviews,       \* local all_reviews of fetch_all_reviews
    product_id,        \* local product_id
    page,              \* local page
    op,                \* the method of the instance that is running
    calls,             \* number of method calls made on the instance
    \* ---- the outcome of the call ----
    outcome,           \* "running", "returned" or "raised"
    raised,            \* the exception that left the call, or None
    result,            \* the returned list of records
    \* ---- the environment, as the program has seen it ----
    events,            \* requests issued and sleeps taken, in order
    pagelog,           \* one entry per page request: what the page held
    faults,            \* the fragments whose processing raised: <<call, page, idx, where>>
    served,            \* number of review fragments served so far
    soup,              \* the parsed document of the current page
    docs,              \* the documents the running call received, in order
    exit_status,       \* the exit status of the command-line run, None until it ends
    dom                \* the documents and arguments the environment draws from

vars == <<prog, pc, subject, max_pages, movie_id, movie_title, pages_scraped,
          pagination_key, url, review_containers, container_idx, review_data,
          permalink, reviews, self_url, self_reviews, product_data, all_reviews,
          product_id, page, op, calls, outcome, raised, result, events, pagelog,
          faults, served, soup, docs, exit_status, dom>>

imdbVars == <<subject, max_pages, movie_id, movie_title, pages_scraped,
              pagination_key, url, review_containers, container_idx,
              review_data, permalink, reviews>>

shopVars == <<self_url, self_reviews, product_data, all_reviews, product_id,
              page, op, calls>>

callVars == <<outcome, raised, result>>

(***************************************************************************)
(* Bounds of the model.                                                    *)
(***************************************************************************)
\* largest max_pages argument explored (the smallest is -1)
MaxPages == 5
\* review fragments the site serves during one run, over all pages
MaxReviews == 3
\* fragments whose processing raises during one run
MaxFaults == 1
\* review items the shop serves during one run, over all pages and calls
MaxShopReviews == 4
\* method calls made on one ShopCluesScraper instance
MaxCalls == 2
\* review fragments served during one run in which every shape of fragment occurs
MaxFieldFrags == 1
\* the longest subject string given to scrape_reviews
MaxSubjectLen == 5

\* the default of the max_pages parameter of scrape_reviews
DefaultMaxPages == 5

(***************************************************************************)
(* Python values.                                                          *)
(***************************************************************************)
\* Python's None
None == "<None>"

\* None where the other values are sequences of characters
NoUrl == <<None>>

\* bool(u) of a sequence-or-None value
TruthyUrl(u) == u # NoUrl /\ u # <<>>

\* bool(x) of a str-or-None value: None and the empty string are falsy
Truthy(x) == x # None /\ x # ""

Min(a, b) == IF a < b THEN a ELSE b
Max(a, b) == IF a > b THEN a ELSE b

\* all sequences over S of length 0..n
SeqsUpTo(S, n) == UNION {[1..k -> S] : k \in 0..n}

(***************************************************************************)
(* get_movie_id: subjects are sequences of characters over "t", a digit    *)
(* and another character.                                                  *)
(***************************************************************************)
IsDigit(c) == c \in {"1", "2"}

\* movie_url.startswith('tt')
StartsWithTT(s) == Len(s) >= 2 /\ s[1] = "t" /\ s[2] = "t"

\* the positions i where the regex tt\d+ matches starting at i
TTMatchStarts(s) ==
    {i \in 1..Len(s) : i + 2 <= Len(s) /\ s[i] = "t" /\ s[i+1] = "t" /\ IsDigit(s[i+2])}

\* end of the greedy digit run that starts at position i
RECURSIVE DigitRunEnd(_, _)
DigitRunEnd(s, i) ==
    IF i < Len(s) /\ IsDigit(s[i+1]) THEN DigitRunEnd(s, i + 1) ELSE i

\* the leftmost match taken through the end of the string
RegexTTToEnd(s) ==
    LET i == CHOOSE k \in TTMatchStarts(s) : \A j \in TTMatchStarts(s) : k <= j
    IN  SubSeq(s, i, Len(s))

\* re.search(r'(tt\d+)', movie_url).group(1): the leftmost match, digits greedy
RegexTT(s) ==
    LET i == CHOOSE k \in TTMatchStarts(s) : \A j \in TTMatchStarts(s) : k <= j
    IN  SubSeq(s, i, DigitRunEnd(s, i + 2))

\* whether get_movie_id returns (TRUE) or raises ValueError (FALSE)
MovieIdResolves(s) == StartsWithTT(s) \/ TTMatchStarts(s) # {}

\* the value get_movie_id returns
get_movie_id(s) == IF StartsWithTT(s) THEN s ELSE RegexTT(s)

(***************************************************************************)
(* Markup of one IMDb review container: which of the nodes the code looks  *)
(* for are there, and whether processing the container raises.             *)
(***************************************************************************)
ImdbShapes ==
    {sh \in [rating_element : BOOLEAN, rating_value : BOOLEAN,
             title_element : BOOLEAN, author_section : BOOLEAN,
             author_link : BOOLEAN, date_element : BOOLEAN,
             permalink_link : BOOLEAN, href : BOOLEAN] :
        /\ sh.rating_value => sh.rating_element
        /\ sh.author_link => sh.author_section
        /\ sh.date_element => sh.author_section
        /\ sh.permalink_link => sh.author_section
        /\ sh.href => sh.permalink_link}

FullShape ==
    [rating_element |-> TRUE, rating_value |-> TRUE, title_element |-> TRUE,
     author_section |-> TRUE, author_link |-> TRUE, date_element |-> TRUE,
     permalink_link |-> TRUE, href |-> TRUE]

BareShape ==
    [rating_element |-> FALSE, rating_value |-> FALSE, title_element |-> FALSE,
     author_section |-> FALSE, author_link |-> FALSE, date_element |-> FALSE,
     permalink_link |-> FALSE, href |-> FALSE]

\* where the processing of a container can raise inside the try of lines 112-194:
\* nowhere, while the fields are read (before the append), or in the progress
\* print of line 190 (after the append of line 189)
FaultPoints == {"none", "parse", "print"}

(***************************************************************************)
(* Text of a node: a sequence of tokens, " " for white space and "(1994)"  *)
(* for a parenthesised four-digit year.                                    *)
(***************************************************************************)
RECURSIVE LStrip(_)
LStrip(s) == IF s # <<>> /\ Head(s) = " " THEN LStrip(Tail(s)) ELSE s

RECURSIVE RStrip(_)
RStrip(s) ==
    IF s # <<>> /\ s[Len(s)] = " " THEN RStrip(SubSeq(s, 1, Len(s) - 1)) ELSE s

\* str.strip()
Strip(s) == LStrip(RStrip(s))

IsNotYear(tok) == tok # "(1994)"

\* re.sub(r'\(\d{4}\)', '', title_text)
RemoveYear(s) == SelectSeq(s, IsNotYear)

\* a node a selector looked for: absent (find returns None), or there with its text
NoNode == [present |-> FALSE, text |-> <<>>]
Node(text) == [present |-> TRUE, text |-> text]

\* a or b or c over the nodes three selectors found: a Tag is truthy whatever it holds
FirstNode(a, b, c) == IF a.present THEN a ELSE IF b.present THEN b ELSE c

(***************************************************************************)
(* Requests and sleeps, as the transport and the clock see them.           *)
(***************************************************************************)
Get(kind, id, key) == [ev |-> "get", kind |-> kind, id |-> id, key |-> key]
Sleep(kind) == [ev |-> "sleep", kind |-> kind, id |-> None, key |-> None]

\* a document received: the answer to the title request ("title"), the review
\* containers of a page ("page"), the answer to a full-review request ("full"),
\* the review items of the first page ("first") or of a JSON page ("json")
Doc(kind, p, i, doc) == [kind |-> kind, page |-> p, idx |-> i, doc |-> doc]

\* a request for a page of reviews: the reviews page and its continuations
\* (scrape_reviews), the product page read for its reviews and the JSON pages
\* (fetch_all_reviews)
IsPageGet(e) == e.ev = "get" /\ e.kind \in {"reviews", "ajax", "first", "json"}

\* number of page requests issued so far
PageGets == Cardinality({i \in 1..Len(events) : IsPageGet(events[i])})

(***************************************************************************)
(* scrape_reviews                                                          *)
(***************************************************************************)
Raise(exc) ==
    /\ pc' = "done"
    /\ outcome' = "raised"
    /\ raised' = exc
    /\ UNCHANGED result

\* the return that hands back nothing when the loop is left from the page request
ReturnReviewsDropOnError ==
    /\ pc' = "done"
    /\ outcome' = "returned"
    /\ result' = IF pc = "fetch" THEN <<>> ELSE reviews
    /\ UNCHANGED raised

\* lines 219-220: the loop is left, the list is returned with the title
ReturnReviews ==
    /\ pc' = "done"
    /\ outcome' = "returned"
    /\ result' = reviews
    /\ UNCHANGED raised

\* line 57: movie_id = get_movie_id(movie_id_or_url)
GetMovieId ==
    /\ prog = "imdb" /\ pc = "get_movie_id"
    /\ IF MovieIdResolves(subject)
         THEN /\ movie_id' = get_movie_id(subject)
              /\ pc' = "get_movie_title"
              /\ UNCHANGED callVars
         ELSE /\ Raise("ValueError")
              /\ UNCHANGED movie_id
    /\ UNCHANGED <<prog, subject, max_pages, movie_title, pages_scraped,
                   pagination_key, url, review_containers, container_idx,
                   review_data, permalink, reviews, shopVars, events, pagelog,
                   faults, served, soup, docs, exit_status, dom>>

\* the value get_movie_title returns for a response that arrived (lines 32-43)
TitleOf(resp, id) ==
    LET title_elem == FirstNode(resp.hero, resp.h1, resp.wrapper)
    IN  IF resp.status = "200" /\ title_elem.present
          THEN Strip(RemoveYear(Strip(title_elem.text)))
          ELSE id

\* line 66: movie_title = get_movie_title(movie_id); requests.get is not guarded
GetMovieTitle ==
    /\ prog = "imdb" /\ pc = "get_movie_title"
    /\ events' = Append(events, Get("title", movie_id, None))
    /\ \E resp \in dom.title_responses :
         /\ docs' = Append(docs, Doc("title", 0, 0, resp))
         /\ IF resp.status = "error"
              THEN /\ Raise("RequestException")
                   /\ UNCHANGED movie_title
              ELSE /\ movie_title' = TitleOf(resp, movie_id)
                   /\ pc' = "while"
                   /\ UNCHANGED callVars
    /\ UNCHANGED <<prog, subject, max_pages, movie_id, pages_scraped,
                   pagination_key, url, review_containers, container_idx,
                   review_data, permalink, reviews, shopVars, pagelog,
                   faults, served, soup, exit_status, dom>>

\* the loop test with the comparison off by one
LoopTestInclusive == pages_scraped <= max_pages

\* line 75: while pages_scraped < max_pages
LoopTest == pages_scraped < max_pages

\* lines 75-85: the loop test, the choice of the url, the increment of the counter
WhileHead ==
    /\ prog = "imdb" /\ pc = "while"
    /\ IF LoopTest
         THEN IF pages_scraped = 0
                THEN /\ url' = Get("reviews", movie_id, None)
                     /\ pages_scraped' = pages_scraped + 1
                     /\ pc' = "fetch"
                     /\ UNCHANGED callVars
                ELSE IF Truthy(pagination_key)
                       THEN /\ url' = Get("ajax", movie_id, pagination_key)
                            /\ pages_scraped' = pages_scraped + 1
                            /\ pc' = "fetch"
                            /\ UNCHANGED callVars
                       ELSE /\ ReturnReviews
                            /\ UNCHANGED <<url, pages_scraped>>
         ELSE /\ ReturnReviews
              /\ UNCHANGED <<url, pages_scraped>>
    /\ UNCHANGED <<prog, subject, max_pages, movie_id, movie_title,
                   pagination_key, review_containers, container_idx,
                   review_data, permalink, reviews, shopVars, events,
                   pagelog, faults, served, soup, docs, exit_status, dom>>

\* a node that may carry a data-key attribute: absent, or there with the
\* attribute's value (None when it has no such attribute)
NoKeyNode == [present |-> FALSE, data_key |-> None]
KeyNode(k) == [present |-> TRUE, data_key |-> k]

\* the load-more markup of a page: the div.load-more-data node and the parent
\* of the Load More button
PagMarkup(lm, bp) == [load_more |-> lm, button_parent |-> bp]

\* the key lookup without the fallback to the Load More button
PaginationKeyOfDivOnly(doc) ==
    IF doc.load_more.present /\ doc.load_more.data_key # None
      THEN doc.load_more.data_key
      ELSE None

\* lines 198-207: the key of div.load-more-data, else of the Load More button's parent
PaginationKeyOf(doc) ==
    IF doc.load_more.present /\ doc.load_more.data_key # None
      THEN doc.load_more.data_key
      ELSE IF doc.button_parent.present /\ doc.button_parent.data_key # None
             THEN doc.button_parent.data_key
             ELSE None

IsFaulty(c) == c.fault # "none"

NumFaulty(cs) == Cardinality({i \in 1..Len(cs) : IsFaulty(cs[i])})

\* the container lists a page may hold: the site serves at most d.max_reviews
\* fragments during the run, at most d.max_faults of them faulty
ContainerLists(d, nserved, nfaults) ==
    {cs \in SeqsUpTo(d.containers, d.max_reviews - nserved) :
        NumFaulty(cs) <= d.max_faults - nfaults}

\* lines 98-103: the article containers, else the div containers
ContainersOf(resp) == IF resp.article # <<>> THEN resp.article ELSE resp.div

\* the responses to a page request: the transport raises (a failed connection,
\* a non-2xx status through raise_for_status), or a document arrives
ImdbPageResponses(d, nserved, nfaults) ==
    {[status |-> "error", article |-> <<>>, div |-> <<>>,
      load_more |-> NoKeyNode, button_parent |-> NoKeyNode]}
    \cup
    {[status |-> "ok", article |-> IF tag = "article" THEN cs ELSE <<>>,
      div |-> IF tag = "div" THEN cs ELSE <<>>,
      load_more |-> pg.load_more, button_parent |-> pg.button_parent] :
        tag \in {"article", "div"}, pg \in d.pagination,
        cs \in ContainerLists(d, nserved, nfaults)}

\* what a page request met: the transport's outcome, the number of review
\* fragments of the page, its load-more markup
PageEntry(status, n, more) == [status |-> status, n |-> n, more |-> more]

\* lines 87-109: the page request, its failure, the search for review containers
FetchPage ==
    /\ prog = "imdb" /\ pc = "fetch"
    /\ events' = Append(events, url)
    /\ \E resp \in ImdbPageResponses(dom, served, Len(faults)) :
         IF resp.status = "error"
           THEN /\ ReturnReviews
                /\ pagelog' = Append(pagelog,
                       PageEntry("error", 0, PagMarkup(NoKeyNode, NoKeyNode)))
                /\ UNCHANGED <<soup, review_containers, container_idx, served, docs>>
           ELSE /\ soup' = PagMarkup(resp.load_more, resp.button_parent)
                /\ docs' = Append(docs, Doc("page", pages_scraped, 0, ContainersOf(resp)))
                /\ review_containers' = ContainersOf(resp)
                /\ served' = served + Len(ContainersOf(resp))
                /\ pagelog' = Append(pagelog,
                       PageEntry("ok", Len(ContainersOf(resp)),
                                 PagMarkup(resp.load_more, resp.button_parent)))
                /\ IF ContainersOf(resp) = <<>>
                     THEN ReturnReviews /\ UNCHANGED container_idx
                     ELSE /\ pc' = "container" /\ container_idx' = 1
                          /\ UNCHANGED callVars
    /\ UNCHANGED <<prog, subject, max_pages, movie_id, movie_title,
                   pages_scraped, pagination_key, url, review_data, permalink,
                   reviews, shopVars, faults, exit_status, dom>>

\* the end of one iteration of the for loop of line 111
NextContainer ==
    IF container_idx < Len(review_containers)
      THEN pc' = "container" /\ container_idx' = container_idx + 1
      ELSE pc' = "pagination" /\ UNCHANGED container_idx

\* a Python dict as a function from its keys
EmptyDict == <<>>

\* lines 117-147: the four fields read from the container itself
RatingOfNoFallback(sh) == IF sh.rating_element THEN "9" ELSE "N/A"
RatingOf(sh) == IF sh.rating_element /\ sh.rating_value THEN "9" ELSE "N/A"
TitleFieldOf(sh) == IF sh.title_element THEN "Great" ELSE "No Title"
ReviewerOf(sh) == IF sh.author_section /\ sh.author_link THEN "alice" ELSE "Anonymous"
DateOf(sh) == IF sh.author_section /\ sh.date_element THEN "1 Jan" ELSE "Unknown date"

\* review_data when a date that is not found sets no 'date' key
FieldsReadNoSentinel(sh, k) ==
    LET all == <<"rating", "title", "reviewer", "date">>
        val == [f \in {"rating", "title", "reviewer", "date"} |->
                   CASE f = "rating" -> RatingOf(sh)
                     [] f = "title" -> TitleFieldOf(sh)
                     [] f = "reviewer" -> ReviewerOf(sh)
                     [] f = "date" -> DateOf(sh)]
    IN  [f \in {g \in {all[i] : i \in 1..k} : val[g] # "Unknown date"} |-> val[f]]

\* review_data after the first k of the assignments of lines 117-147
FieldsRead(sh, k) ==
    LET all == <<"rating", "title", "reviewer", "date">>
        val == [f \in {"rating", "title", "reviewer", "date"} |->
                   CASE f = "rating" -> RatingOf(sh)
                     [] f = "title" -> TitleFieldOf(sh)
                     [] f = "reviewer" -> ReviewerOf(sh)
                     [] f = "date" -> DateOf(sh)]
    IN  [f \in {all[i] : i \in 1..k} |-> val[f]]

\* a permalink for every container, whatever its markup
PermalinkOfAlways(sh) == "/review/rw/"

\* lines 152-159
PermalinkOf(sh) ==
    IF sh.author_section /\ sh.permalink_link /\ sh.href THEN "/review/rw/" ELSE None

\* lines 112-160 and 192-194: review_data = {}, the fields of the container, its
\* permalink; a fault on the way leaves the try through the except of line 192
ParseContainer ==
    /\ prog = "imdb" /\ pc = "container"
    /\ LET c == review_containers[container_idx]
       IN  IF c.fault = "parse"
             THEN /\ \E k \in 0..3 : review_data' = FieldsRead(c.shape, k)
                  /\ faults' = Append(faults, <<1, pages_scraped, container_idx, "parse">>)
                  /\ NextContainer
                  /\ UNCHANGED permalink
             ELSE /\ review_data' = FieldsRead(c.shape, 4)
                  /\ permalink' = PermalinkOf(c.shape)
                  /\ pc' = "full_review"
                  /\ UNCHANGED <<faults, container_idx>>
    /\ UNCHANGED <<prog, subject, max_pages, movie_id, movie_title,
                   pages_scraped, pagination_key, url, review_containers,
                   reviews, shopVars, callVars, events, pagelog, served, soup, docs, exit_status, dom>>

\* lines 170-181: the text of the full-review page that arrived
ReviewTextOf(resp) ==
    LET review_text_elem == FirstNode(resp.show_more, resp.content, resp.review_content)
    IN  IF review_text_elem.present
          THEN Strip(review_text_elem.text)
          ELSE <<"Review text not available">>

\* lines 161-186: the full review behind the permalink, or the sentinel
FullReview ==
    /\ prog = "imdb" /\ pc = "full_review"
    /\ IF Truthy(permalink)
         THEN /\ events' = events \o <<Sleep("review"),
                               Get("permalink", <<pages_scraped, container_idx>>, None)>>
              /\ \E resp \in dom.review_responses :
                   /\ review_data' = review_data @@
                         ("text" :> IF resp.status = "error"
                                      THEN <<"Error fetching full review">>
                                      ELSE ReviewTextOf(resp))
                   /\ docs' = Append(docs,
                                     Doc("full", pages_scraped, container_idx, resp))
         ELSE /\ review_data' = review_data @@
                       ("text" :> <<"No permalink available to fetch full review">>)
              /\ UNCHANGED <<events, docs>>
    /\ pc' = "append"
    /\ UNCHANGED <<prog, subject, max_pages, movie_id, movie_title,
                   pages_scraped, pagination_key, url, review_containers,
                   container_idx, permalink, reviews, shopVars, callVars,
                   pagelog, faults, served, soup, exit_status, dom>>

\* a record of the result: the fragment it comes from and its fields
Rec(c, p, i, data) == [call |-> c, page |-> p, idx |-> i, data |-> data]

\* the record put at the front of the list
AppendToFront(list, rec) == <<rec>> \o list

\* line 189: reviews.append(review_data)
AppendTo(list, rec) == Append(list, rec)

\* lines 189-194: the append, then the progress print, which may raise into the
\* except of line 192
AppendReview ==
    /\ prog = "imdb" /\ pc = "append"
    /\ reviews' = AppendTo(reviews, Rec(1, pages_scraped, container_idx, review_data))
    /\ faults' = IF review_containers[container_idx].fault = "print"
                   THEN Append(faults, <<1, pages_scraped, container_idx, "print">>)
                   ELSE faults
    /\ NextContainer
    /\ UNCHANGED <<prog, subject, max_pages, movie_id, movie_title,
                   pages_scraped, pagination_key, url, review_containers,
                   review_data, permalink, shopVars, callVars, events, pagelog,
                   served, soup, docs, exit_status, dom>>

\* the key lookup without the reset of line 197: a page without a key leaves
\* the key of the page before in place
NextKeyNoReset(doc, old) ==
    IF PaginationKeyOf(doc) = None THEN old ELSE PaginationKeyOf(doc)

\* the key lookup that keeps a key once it has one: the key of the first page
\* is sent with every later request
NextKeyKeepFirst(doc, old) ==
    IF old # None THEN old ELSE PaginationKeyOf(doc)

\* lines 197-207: pagination_key = None, then the key the page holds, if any
NextKey(doc, old) == PaginationKeyOf(doc)

\* lines 196-217: the next key, the break when there is none, the delay
Pagination ==
    /\ prog = "imdb" /\ pc = "pagination"
    /\ pagination_key' = NextKey(soup, pagination_key)
    /\ IF ~Truthy(pagination_key')
         THEN ReturnReviews /\ UNCHANGED events
         ELSE /\ pc' = "while"
              /\ events' = IF pages_scraped < max_pages
                             THEN Append(events, Sleep("page"))
                             ELSE events
              /\ UNCHANGED callVars
    /\ UNCHANGED <<prog, subject, max_pages, movie_id, movie_title,
                   pages_scraped, url, review_containers, container_idx,
                   review_data, permalink, reviews, shopVars,
                   pagelog, faults, served, soup, docs, exit_status, dom>>

\* main, lines 247-266: what follows the call of scrape_reviews in the try; the
\* except of line 257 catches every exception, prints and falls off the end
Main ==
    /\ prog = "imdb" /\ pc = "done"
    /\ pc' = "exited"
    /\ exit_status' = 0
    /\ UNCHANGED <<prog, imdbVars, shopVars, callVars, events, pagelog, faults,
                   served, soup, docs, dom>>

NextImdb ==
    \/ GetMovieId
    \/ GetMovieTitle
    \/ WhileHead
    \/ FetchPage
    \/ ParseContainer
    \/ FullReview
    \/ AppendReview
    \/ Pagination

(***************************************************************************)
(* ShopCluesScraper                                                        *)
(***************************************************************************)
\* urls are sequences over letters, digits and "H", which stands for the
\* characters ".html"; the starts of the matches of the regex (\d+)\.html
IdMatchStarts(u) ==
    {i \in 1..Len(u) : /\ IsDigit(u[i])
                       /\ DigitRunEnd(u, i) < Len(u)
                       /\ u[DigitRunEnd(u, i) + 1] = "H"}

\* the last digit before .html only
ProductIdOfLastDigit(u) ==
    IF IdMatchStarts(u) = {}
      THEN NoUrl
      ELSE LET i == CHOOSE k \in IdMatchStarts(u) : \A j \in IdMatchStarts(u) : k >= j
           IN  SubSeq(u, i, DigitRunEnd(u, i))

\* line 154: re.search(r'(\d+)\.html', self.url): group(1) of the leftmost match,
\* or NoUrl when there is no match
ProductIdOf(u) ==
    IF IdMatchStarts(u) = {}
      THEN NoUrl
      ELSE LET i == CHOOSE k \in IdMatchStarts(u) : \A j \in IdMatchStarts(u) : k <= j
           IN  SubSeq(u, i, DigitRunEnd(u, i))

\* the position of the first "<!--" of a text, 0 when it has none
RECURSIVE CommentAt(_, _)
CommentAt(t, i) ==
    IF i > Len(t) THEN 0 ELSE IF t[i] = "<!--" THEN i ELSE CommentAt(t, i + 1)

\* lines 108-113: text.split('<!--')[0].strip() when the text holds '<!--'
CleanComment(t) ==
    IF CommentAt(t, 1) = 0 THEN t ELSE Strip(SubSeq(t, 1, CommentAt(t, 1) - 1))

\* lines 92-121: the record of one review item
ShopRecordOf(sh) ==
    [reviewer_name |-> CleanComment(IF sh.reviewer.present
                                      THEN Strip(sh.reviewer.text)
                                      ELSE <<"Anonymous">>),
     rating |-> IF sh.rating_span THEN "4" ELSE "N/A",
     date |-> IF sh.date_elem THEN "2 Feb" ELSE "",
     verified_status |-> IF sh.verified THEN "Verified" ELSE "N/A",
     review_content |-> CleanComment(IF sh.review_text.present
                                       THEN Strip(sh.review_text.text)
                                       ELSE <<"No content">>)]

\* lines 84-129: parse_reviews over the items from position i on; an item whose
\* processing raises is skipped by the except of line 125
RECURSIVE parse_reviews(_, _, _, _)
parse_reviews(items, c, p, i) ==
    IF i > Len(items)
      THEN <<>>
      ELSE IF items[i].fault = "none"
             THEN <<Rec(c, p, i, ShopRecordOf(items[i].shape))>>
                      \o parse_reviews(items, c, p, i + 1)
             ELSE parse_reviews(items, c, p, i + 1)

\* the faults parse_reviews logs ("Error parsing a review")
ParseFaults(items, c, p) ==
    LET bad == {i \in 1..Len(items) : items[i].fault # "none"}
        RECURSIVE Log(_)
        Log(i) == IF i > Len(items) THEN <<>>
                  ELSE (IF i \in bad THEN <<<<c, p, i, "parse">>>> ELSE <<>>) \o Log(i + 1)
    IN  Log(1)

ShopReturn(value) ==
    /\ pc' = "done"
    /\ outcome' = value
    /\ UNCHANGED raised

\* lines 194-200 and 133-135: a method of the instance is called
ShopCall ==
    /\ prog = "shop" /\ pc \in {"idle", "done"}
    /\ calls < dom.max_calls
    /\ calls' = calls + 1
    /\ events' = <<>>
    /\ pagelog' = <<>>
    /\ docs' = <<>>
    /\ \E m \in {"scrape_product", "fetch_all_reviews"} :
         /\ op' = m
         /\ IF m = "scrape_product"
              THEN \E u \in dom.shop_urls \cup {NoUrl} :
                     /\ self_url' = IF TruthyUrl(u) THEN u ELSE self_url
                     /\ IF TruthyUrl(self_url')
                          THEN /\ pc' = "scrape_product"
                               /\ outcome' = "running"
                               /\ UNCHANGED raised
                          ELSE ShopReturn("returned_false")
              ELSE /\ UNCHANGED self_url
                   /\ IF TruthyUrl(self_url)
                        THEN /\ pc' = "fetch_all_reviews"
                             /\ outcome' = "running"
                             /\ UNCHANGED raised
                        ELSE ShopReturn("returned")
    /\ result' = <<>>
    /\ all_reviews' = <<>>
    /\ page' = 0
    /\ product_id' = NoUrl
    /\ UNCHANGED <<prog, imdbVars, self_reviews, product_data, faults, served,
                   soup, exit_status, dom>>

\* lines 35-73: the fields of the product page
ProductInfoOf(doc, u) ==
    [product_name |-> IF doc.product_name THEN "Phone" ELSE "Name not found",
     price |-> IF doc.price THEN "Rs.100" ELSE "Price not found",
     mrp |-> IF doc.mrp THEN "Rs.120" ELSE "MRP not found",
     discount |-> IF doc.discount THEN "16% off" ELSE "Discount not found",
     seller_name |-> IF doc.seller_name THEN "Seller" ELSE "Seller not found",
     rating |-> IF doc.rating_elem THEN "4.1" ELSE "Rating not found",
     specifications |-> doc.specs,
     url |-> u]

\* lines 202-210 with fetch_page and parse_product_info: the product page
ScrapeProduct ==
    /\ prog = "shop" /\ pc = "scrape_product"
    /\ events' = Append(events, Get("product", self_url, None))
    /\ \E resp \in dom.product_responses :
         IF resp.status = "ok" /\ ~resp.fault
           THEN /\ product_data' = ProductInfoOf(resp.doc, self_url)
                /\ pc' = "fetch_all_reviews"
                /\ UNCHANGED callVars
           ELSE /\ ShopReturn("returned_false")
                /\ UNCHANGED <<product_data, result>>
    /\ UNCHANGED <<prog, imdbVars, self_url, self_reviews, all_reviews,
                   product_id, page, op, calls, pagelog, faults, served, soup, docs, exit_status, dom>>

\* the value a method that ran fetch_all_reviews to its end returns: the list,
\* or True from scrape_product (lines 213-216)
ShopFinished == IF op = "scrape_product" THEN "returned_true" ELSE "returned"

\* the item lists a page may hold, within what the site serves during the run
ItemLists(d, nserved, nfaults) ==
    {items \in SeqsUpTo(d.items, d.shop_max_reviews - nserved) :
        NumFaulty(items) <= d.max_faults - nfaults}

\* the responses to the request of the first page: fetch_page returns None (the
\* transport raised), an empty body, or a document
ShopFirstResponses(d, nserved, nfaults) ==
    {[status |-> st, items |-> <<>>, load_more |-> FALSE] : st \in {"error", "empty"}}
    \cup
    {[status |-> "ok", items |-> items, load_more |-> lm] :
        items \in ItemLists(d, nserved, nfaults), lm \in BOOLEAN}

\* the end of fetch_all_reviews with the collected reviews thrown away
FinishReviewsNone(list) ==
    /\ self_reviews' = <<>>
    /\ result' = <<>>
    /\ ShopReturn(ShopFinished)

\* lines 190-191: self.reviews = all_reviews; return all_reviews
FinishReviews(list) ==
    /\ self_reviews' = list
    /\ result' = list
    /\ ShopReturn(ShopFinished)

\* lines 138-156: the first page, its reviews, the load-more link, the product id
FetchFirstPage ==
    /\ prog = "shop" /\ pc = "fetch_all_reviews"
    /\ events' = Append(events, Get("first", self_url, None))
    /\ \E resp \in ShopFirstResponses(dom, served, Len(faults)) :
         /\ pagelog' = Append(pagelog, PageEntry(resp.status, Len(resp.items),
                                                                     resp.load_more))
         /\ docs' = Append(docs, Doc("first", 1, 0, resp.items))
         /\ IF resp.status # "ok"
              THEN /\ result' = <<>>
                   /\ ShopReturn(ShopFinished)
                   /\ UNCHANGED <<self_reviews, all_reviews, page, product_id,
                                  faults, served>>
              ELSE /\ page' = 1
                   /\ served' = served + Len(resp.items)
                   /\ faults' = faults \o ParseFaults(resp.items, calls, 1)
                   /\ all_reviews' = parse_reviews(resp.items, calls, 1, 1)
                   /\ product_id' = IF resp.load_more THEN ProductIdOf(self_url) ELSE NoUrl
                   /\ IF resp.load_more /\ ProductIdOf(self_url) # NoUrl
                        THEN /\ pc' = "ajax"
                             /\ UNCHANGED <<self_reviews, callVars>>
                        ELSE FinishReviews(all_reviews')
    /\ UNCHANGED <<prog, imdbVars, self_url, product_data, op, calls, soup, exit_status, dom>>

\* the responses to the request of a JSON page: the transport raises, a status
\* other than 200, a body that is no JSON object, a payload with no or an empty
\* "html", or a payload whose html holds the items
ShopJsonResponses(d, nserved, nfaults) ==
    {[status |-> st, items |-> <<>>] :
        st \in {"exception", "non200", "badjson", "nohtml", "emptyhtml"}}
    \cup
    {[status |-> "ok", items |-> items] : items \in ItemLists(d, nserved, nfaults)}

\* lines 158-188: one iteration of the while True loop
FetchJsonPage ==
    /\ prog = "shop" /\ pc = "ajax"
    /\ page' = page + 1
    /\ \E resp \in ShopJsonResponses(dom, served, Len(faults)) :
         /\ pagelog' = Append(pagelog, PageEntry(resp.status, Len(resp.items), FALSE))
         /\ docs' = Append(docs, Doc("json", page', 0, resp.items))
         /\ served' = served + Len(resp.items)
         /\ faults' = faults \o ParseFaults(resp.items, calls, page')
         /\ LET page_reviews == parse_reviews(resp.items, calls, page', 1)
            IN  IF resp.status # "ok" \/ page_reviews = <<>>
                  THEN /\ FinishReviews(all_reviews)
                       /\ events' = Append(events, Get("json", product_id, page'))
                       /\ UNCHANGED all_reviews
                  ELSE /\ all_reviews' = all_reviews \o page_reviews
                       /\ events' = events \o <<Get("json", product_id, page'),
                                                Sleep("page")>>
                       /\ UNCHANGED <<pc, self_reviews, callVars>>
    /\ UNCHANGED <<prog, imdbVars, self_url, product_data, product_id, op,
                   calls, soup, exit_status, dom>>

NextShop ==
    \/ ShopCall
    \/ ScrapeProduct
    \/ FetchFirstPage
    \/ FetchJsonPage

(***************************************************************************)
(* The documents and arguments of the runs that are checked.               *)
(***************************************************************************)
Container(sh, f) == [shape |-> sh, fault |-> f]

TitlePage(status, hero, h1, wrapper) ==
    [status |-> status, hero |-> hero, h1 |-> h1, wrapper |-> wrapper]

ReviewPage(status, show_more, content, review_content) ==
    [status |-> status, show_more |-> show_more, content |-> content,
     review_content |-> review_content]

ProductPage(status, doc, fault) == [status |-> status, doc |-> doc, fault |-> fault]

FullProduct ==
    [product_name |-> TRUE, price |-> TRUE, mrp |-> TRUE, discount |-> TRUE,
     seller_name |-> TRUE, rating_elem |-> TRUE, specs |-> <<<<"Colour", "Black">>>>]

BareProduct ==
    [product_name |-> FALSE, price |-> FALSE, mrp |-> FALSE, discount |-> FALSE,
     seller_name |-> FALSE, rating_elem |-> FALSE, specs |-> <<>>]

FullItem ==
    [rating_span |-> TRUE, reviewer |-> Node(<<"bob", " ">>), date_elem |-> TRUE,
     verified |-> TRUE, review_text |-> Node(<<"Good", " ", "phone">>)]

BareItem ==
    [rating_span |-> FALSE, reviewer |-> NoNode, date_elem |-> FALSE,
     verified |-> FALSE, review_text |-> NoNode]

\* the crawl as a whole: full containers, a few faults, two continuation keys
CrawlDom ==
    [progs |-> {"imdb", "shop"},
     shop_urls |-> {<<"p", "1", "2", "H">>, <<"p">>},
     product_responses |-> {ProductPage("error", BareProduct, FALSE),
                            ProductPage("ok", FullProduct, FALSE),
                            ProductPage("ok", FullProduct, TRUE)},
     items |-> {Container(FullItem, f) : f \in {"none", "parse"}},
     max_calls |-> MaxCalls,
     shop_max_reviews |-> MaxShopReviews,
     subjects |-> {<<"t", "t", "1">>, <<"x", "1">>},
     page_budgets |-> (-1)..MaxPages,
     title_responses |-> {TitlePage("error", NoNode, NoNode, NoNode),
                          TitlePage("200", Node(<<"Film", " ", "(1994)">>), NoNode, NoNode)},
     containers |-> {Container(FullShape, f) : f \in FaultPoints},
     review_responses |-> {ReviewPage("error", NoNode, NoNode, NoNode),
                           ReviewPage("200", Node(<<"Loved", " ">>), NoNode, NoNode)},
     pagination |-> {PagMarkup(NoKeyNode, NoKeyNode),
                     PagMarkup(KeyNode("k1"), NoKeyNode),
                     PagMarkup(KeyNode(None), KeyNode("k2"))},
     max_reviews |-> MaxReviews,
     max_faults |-> MaxFaults]

InitWith(d) ==
    /\ dom = d
    /\ prog \in d.progs
    /\ pc = IF prog = "imdb" THEN "get_movie_id" ELSE "idle"
    /\ subject \in IF prog = "imdb" THEN d.subjects ELSE {<<>>}
    /\ max_pages \in IF prog = "imdb" THEN d.page_budgets ELSE {0}
    /\ movie_id = <<>>
    /\ movie_title = <<>>
    /\ pages_scraped = 0
    /\ pagination_key = None
    /\ url = Get("none", <<>>, None)
    /\ review_containers = <<>>
    /\ container_idx = 0
    /\ review_data = EmptyDict
    /\ permalink = None
    /\ reviews = <<>>
    /\ self_url \in IF prog = "shop" THEN d.shop_urls \cup {NoUrl} ELSE {NoUrl}
    /\ self_reviews = <<>>
    /\ product_data = EmptyDict
    /\ all_reviews = <<>>
    /\ product_id = NoUrl
    /\ page = 0
    /\ op = None
    /\ calls = 0
    /\ outcome = "running"
    /\ raised = None
    /\ result = <<>>
    /\ events = <<>>
    /\ pagelog = <<>>
    /\ faults = <<>>
    /\ served = 0
    /\ soup = PagMarkup(NoKeyNode, NoKeyNode)
    /\ docs = <<>>
    /\ exit_status = None

Init == InitWith(CrawlDom)

\* the subjects scrape_reviews may be given: every string of up to MaxSubjectLen
\* characters over a letter of the prefix, a digit and another character; the
\* crawl behind them is one page of one review
SubjectDom ==
    [progs |-> {"imdb"},
     shop_urls |-> {<<"p">>},
     product_responses |-> {ProductPage("error", BareProduct, FALSE)},
     items |-> {Container(FullItem, "none")},
     max_calls |-> 0,
     shop_max_reviews |-> 0,
     subjects |-> SeqsUpTo({"t", "1", "x"}, MaxSubjectLen),
     page_budgets |-> {1},
     title_responses |-> {TitlePage("error", NoNode, NoNode, NoNode),
                          TitlePage("200", Node(<<"Film", " ", "(1994)">>), NoNode, NoNode),
                          TitlePage("404", NoNode, NoNode, NoNode)},
     containers |-> {Container(FullShape, "none")},
     review_responses |-> {ReviewPage("200", Node(<<"Loved", " ">>), NoNode, NoNode)},
     pagination |-> {PagMarkup(NoKeyNode, NoKeyNode),
                     PagMarkup(KeyNode("k1"), NoKeyNode)},
     max_reviews |-> 1,
     max_faults |-> 0]

InitSubject == InitWith(SubjectDom)

\* the markup of the fragments: which nodes a review container or a review item
\* holds, with a fault before or after the append
FieldShapes ==
    {sh \in ImdbShapes :
        \/ sh = FullShape
        \/ sh = BareShape
        \/ sh = [FullShape EXCEPT !.rating_value = FALSE]
        \/ sh = [FullShape EXCEPT !.date_element = FALSE]
        \/ sh = [FullShape EXCEPT !.author_link = FALSE]
        \/ sh = [FullShape EXCEPT !.href = FALSE]}

CommentItem ==
    [rating_span |-> TRUE, reviewer |-> Node(<<"bob", "<!--", "x">>), date_elem |-> FALSE,
     verified |-> TRUE, review_text |-> Node(<<" ", "<!--", "y">>)]

FieldsDom ==
    [progs |-> {"imdb", "shop"},
     shop_urls |-> {<<"p", "1", "2", "H">>},
     product_responses |-> {ProductPage("error", BareProduct, FALSE),
                            ProductPage("ok", FullProduct, FALSE),
                            ProductPage("ok", BareProduct, FALSE)},
     items |-> {Container(sh, f) : sh \in {FullItem, BareItem, CommentItem},
                                   f \in {"none", "parse"}},
     max_calls |-> 1,
     shop_max_reviews |-> MaxFieldFrags,
     subjects |-> {<<"t", "t", "1">>},
     page_budgets |-> {1, 2},
     title_responses |-> {TitlePage("200", Node(<<"Film", " ", "(1994)">>), NoNode, NoNode),
                          TitlePage("200", NoNode, Node(<<" ", "Film">>), NoNode),
                          TitlePage("200", NoNode, NoNode, Node(<<"Film">>)),
                          TitlePage("200", Node(<<" ">>), Node(<<"Film">>), NoNode),
                          TitlePage("404", NoNode, NoNode, NoNode)},
     containers |-> {Container(sh, f) : sh \in FieldShapes, f \in FaultPoints},
     review_responses |-> {ReviewPage("error", NoNode, NoNode, NoNode),
                           ReviewPage("200", Node(<<"Loved", " ">>), NoNode, NoNode),
                           ReviewPage("200", NoNode, Node(<<"Fine">>), NoNode),
                           ReviewPage("200", NoNode, NoNode, Node(<<"Dull">>)),
                           ReviewPage("200", NoNode, NoNode, NoNode),
                           ReviewPage("200", Node(<<>>), Node(<<"Fine">>), NoNode),
                           ReviewPage("404", NoNode, Node(<<"Not", " ", "found">>), NoNode),
                           ReviewPage("503", NoNode, NoNode, NoNode)},
     pagination |-> {PagMarkup(NoKeyNode, NoKeyNode),
                     PagMarkup(KeyNode("k1"), NoKeyNode)},
     max_reviews |-> MaxFieldFrags,
     max_faults |-> MaxFaults]

InitFields == InitWith(FieldsDom)

\* pages of review containers with and without a permalink
PermalinkDom ==
    [progs |-> {"imdb"},
     shop_urls |-> {<<"p">>},
     product_responses |-> {ProductPage("error", BareProduct, FALSE)},
     items |-> {Container(FullItem, "none")},
     max_calls |-> 0,
     shop_max_reviews |-> 0,
     subjects |-> {<<"t", "t", "1">>},
     page_budgets |-> {1, MaxPages},
     title_responses |-> {TitlePage("200", Node(<<"Film">>), NoNode, NoNode)},
     containers |-> {Container(sh, f) :
                        sh \in {FullShape, [FullShape EXCEPT !.href = FALSE],
                                [FullShape EXCEPT !.permalink_link = FALSE,
                                                  !.href = FALSE]},
                        f \in {"none", "parse"}},
     review_responses |-> {ReviewPage("error", NoNode, NoNode, NoNode),
                           ReviewPage("200", Node(<<"Loved", " ">>), NoNode, NoNode)},
     pagination |-> {PagMarkup(NoKeyNode, NoKeyNode),
                     PagMarkup(KeyNode("k1"), NoKeyNode)},
     max_reviews |-> MaxReviews,
     max_faults |-> MaxFaults]

InitPermalink == InitWith(PermalinkDom)

Next == NextImdb \/ NextShop

Spec == Init /\ [][Next]_vars

\* scrape_reviews over every subject
SpecSubject == InitSubject /\ [][NextImdb]_vars

\* the command-line run of imdb_scraper.py over every subject
NextCli == NextImdb \/ Main

SpecCli == InitSubject /\ [][NextCli]_vars

\* scrape_reviews over containers with and without a permalink
SpecPermalink == InitPermalink /\ [][NextImdb]_vars

\* both programs over every fragment markup
SpecFields == InitFields /\ [][Next]_vars

(***************************************************************************)
(* What the claims speak of.                                               *)
(***************************************************************************)
Imdb == prog = "imdb"
Shop == prog = "shop"

\* the call has ended by returning
HasReturned == outcome \in {"returned", "returned_true", "returned_false"}

LastPage == pagelog[Len(pagelog)]

\* the continuation token a fetched page of scrape_reviews exposes: the
\* data-key of its load-more div, else that of the Load More button's parent
TokenOf(entry) ==
    IF entry.more.load_more.present /\ entry.more.load_more.data_key # None
      THEN entry.more.load_more.data_key
      ELSE IF entry.more.button_parent.present
                /\ entry.more.button_parent.data_key # None
             THEN entry.more.button_parent.data_key
             ELSE None

\* the page exposes a continuation token
HasToken(entry) == entry.status = "ok" /\ TokenOf(entry) \notin {None, ""}

\* the page request failed: a connection failure or a non-2xx status
NetworkError(entry) == entry.status \in {"error", "exception", "non200"}

\* the page budget of a call of scrape_reviews
PageBudget == Max(max_pages, 0)

(***************************************************************************)
(* C1: in scrape_reviews, for every max_pages and every sequence of        *)
(* responses, the pages_scraped counter and the number of page requests    *)
(* issued never exceed the budget max_pages gives (a count is never        *)
(* negative: the budget of a max_pages <= 0 is no page), and with          *)
(* max_pages <= 0 no page is requested and the returned list is empty.     *)
(***************************************************************************)
C1_NeverExceedsBudget ==
    Imdb => /\ pages_scraped <= PageBudget
            /\ PageGets <= pages_scraped
            /\ PageGets <= PageBudget
            /\ max_pages <= 0 => PageGets = 0 /\ reviews = <<>> /\ result = <<>>

\* a crawl that the budget stopped: every page, the last one too, had a token
C1_Witness ==
    /\ Imdb /\ outcome = "returned" /\ max_pages >= 2
    /\ PageGets = max_pages
    /\ HasToken(LastPage) /\ LastPage.n > 0

(***************************************************************************)
(* C2: the loop of scrape_reviews stops before max_pages pages exactly     *)
(* when the page just fetched exposes no continuation key or its request   *)
(* failed; no other condition ends the loop early.                         *)
(***************************************************************************)
\* every page that was followed by another request arrived and had a token
C2_ContinuesOnlyWithToken ==
    \A i \in 1..(Len(pagelog) - 1) : HasToken(pagelog[i])

C3_BoundedByPageBudget ==
    PageGets <= IF Imdb THEN PageBudget ELSE DefaultMaxPages

(***************************************************************************)
(* C4: once a fetched page exposes no continuation token no further page   *)
(* is requested, whatever budget remains; a first page with 2 valid        *)
(* fragments and token "k1", then a page with 1 valid fragment and no      *)
(* token, give with max_pages = 5 exactly 3 records after 2 requests.      *)
(***************************************************************************)
C4_Scenario ==
    /\ Imdb /\ outcome = "returned" /\ max_pages = 5
    /\ Len(pagelog) >= 2
    /\ pagelog[1].status = "ok" /\ pagelog[1].n = 2 /\ TokenOf(pagelog[1]) = "k1"
    /\ pagelog[2].status = "ok" /\ pagelog[2].n = 1 /\ ~HasToken(pagelog[2])
    /\ faults = <<>>

C4_ExhaustedHalts ==
    Imdb => /\ \A i \in 1..Len(pagelog) :
                 ~HasToken(pagelog[i]) => i = Len(pagelog) /\ PageGets = i
            /\ C4_Scenario => Len(result) = 3 /\ PageGets = 2 /\ pages_scraped = 2

\* the scenario has run to its end
C4_Witness == C4_Scenario /\ Len(result) = 3 /\ Len(pagelog) = 2

\* the call a record or a logged fault of the running call belongs to
ThisCall == IF Imdb THEN 1 ELSE calls

\* the list the running call accumulates
Accumulated == IF Imdb THEN reviews ELSE all_reviews

\* the fragments <<page, index>> of pages 1..k of the running call whose
\* processing ended in the except before the append
ParseFaulted(k) ==
    {<<faults[j][2], faults[j][3]>> : j \in {i \in 1..Len(faults) :
        faults[i][1] = ThisCall /\ faults[i][2] <= k /\ faults[i][4] = "parse"}}

\* the fragments of pages 1..k that were served
Fragments(k) ==
    UNION {{<<p, i>> : i \in 1..pagelog[p].n} : p \in 1..k}

\* the fragments the records of a list come from
Origins(list) == {<<list[j].page, list[j].idx>> : j \in 1..Len(list)}

(***************************************************************************)
(* C5: a failed page request is a soft stop: when the request of page k    *)
(* fails (connection failure or non-2xx status) the call returns, and what *)
(* it returns is exactly the records of pages 1..k-1, one for every        *)
(* fragment that did not fault before its append; for scrape_reviews and   *)
(* for fetch_all_reviews.                                                  *)
(***************************************************************************)
C5_SoftStop ==
    (pagelog # <<>> /\ NetworkError(LastPage)) =>
        /\ outcome \in {"returned", "returned_true"}
        /\ pc = "done"
        /\ \A j \in 1..Len(result) : result[j].call = ThisCall
        /\ Origins(result) = Fragments(Len(pagelog) - 1) \ ParseFaulted(Len(pagelog) - 1)
        /\ Len(result) = Cardinality(Origins(result))

\* the second page request of scrape_reviews failed after a first page of two
\* or more records
C5_Witness ==
    /\ pagelog # <<>> /\ Len(pagelog) >= 2 /\ NetworkError(LastPage)
    /\ Len(result) >= 2

(***************************************************************************)
(* C6: no network fault escapes scrape_reviews: whatever request fails,    *)
(* the request for the title included, the call returns; the only fault    *)
(* that reaches the caller is the ValueError of get_movie_id.              *)
(***************************************************************************)
C6_OnlyValidationFaultEscapes ==
    Imdb => (outcome = "raised" => raised = "ValueError")

(***************************************************************************)
(* C7: a subject that holds no identifier (tt followed by digits), neither *)
(* as a whole nor inside a URL, makes scrape_reviews fail with ValueError  *)
(* before any request is issued; no request is ever issued for it.         *)
(***************************************************************************)
\* the subject holds tt followed by a digit
HasIdentifier(s) ==
    \E i \in 1..(Len(s) - 2) : s[i] = "t" /\ s[i + 1] = "t" /\ s[i + 2] \in {"1", "2"}

C7_EagerValidation ==
    (Imdb /\ ~HasIdentifier(subject)) =>
        /\ events = <<>>
        /\ pc = "done" => outcome = "raised" /\ raised = "ValueError"

(***************************************************************************)
(* C8: every record of an accumulated or returned list has all five fields *)
(* of its program, each with an extracted value or a sentinel; a fragment  *)
(* that faulted before its append left no record, and no fragment left     *)
(* more than one.                                                          *)
(***************************************************************************)
ImdbKeys == {"rating", "title", "reviewer", "date", "text"}
ShopKeys == {"reviewer_name", "rating", "date", "verified_status", "review_content"}

RecordLists == {reviews, result, all_reviews, self_reviews}

Complete(r) == DOMAIN r.data = IF Imdb THEN ImdbKeys ELSE ShopKeys

C8_RecordsComplete ==
    \A list \in RecordLists :
        /\ \A j \in 1..Len(list) : Complete(list[j])
        /\ \A j \in 1..Len(list), f \in 1..Len(faults) :
              faults[f][4] = "parse" =>
                  <<list[j].call, list[j].page, list[j].idx>>
                      # <<faults[f][1], faults[f][2], faults[f][3]>>
        /\ \A j, k \in 1..Len(list) :
              (list[j].call = list[k].call /\ list[j].page = list[k].page
                 /\ list[j].idx = list[k].idx) => j = k

\* a container of scrape_reviews faulted with some of its fields read: it is
\* logged, the half-built dict is left behind, the returned list has no record
C8_Witness ==
    /\ Imdb /\ outcome = "returned"
    /\ \E f \in 1..Len(faults) : faults[f][4] = "parse"
    /\ DOMAIN review_data # {} /\ DOMAIN review_data # ImdbKeys
    /\ result = <<>>

(***************************************************************************)
(* C9: a page of N fragments of which exactly one faults in its processing *)
(* (one failure is logged for the page) gives N-1 records.                 *)
(***************************************************************************)
\* the failures logged for page p of the running call
FaultsOn(p) ==
    {i \in 1..Len(faults) : faults[i][1] = ThisCall /\ faults[i][2] = p}

\* the records page p of the running call has left in the accumulated list
RecordsOf(p) ==
    {j \in 1..Len(Accumulated) :
        Accumulated[j].call = ThisCall /\ Accumulated[j].page = p}

\* every fragment of page p has been processed
PageDone(p) == p < Len(pagelog) \/ pc \in {"pagination", "while", "done"}

C9_OneFaultOneDrop ==
    \A p \in 1..Len(pagelog) :
        (pagelog[p].status = "ok" /\ PageDone(p) /\ Cardinality(FaultsOn(p)) = 1)
            => Cardinality(RecordsOf(p)) = pagelog[p].n - 1

(***************************************************************************)
(* C10: the records are in the order of the page requests and, within a    *)
(* page, in the order of the fragments; the accumulated list only grows at *)
(* its end.                                                                *)
(***************************************************************************)
Before(r1, r2) ==
    \/ r1.call < r2.call
    \/ r1.call = r2.call /\ r1.page < r2.page
    \/ r1.call = r2.call /\ r1.page = r2.page /\ r1.idx < r2.idx

Ordered(list) ==
    \A j, k \in 1..Len(list) : j < k <=> Before(list[j], list[k])

IsPrefix(a, b) == Len(a) <= Len(b) /\ SubSeq(b, 1, Len(a)) = a

C10_OrderPreserved ==
    /\ [](\A list \in RecordLists : Ordered(list))
    /\ [][/\ IsPrefix(reviews, reviews')
          /\ calls' = calls => IsPrefix(all_reviews, all_reviews')]_vars

\* three records of two pages have been returned
C10_Witness ==
    /\ HasReturned /\ Len(result) = 3
    /\ result[1].page = 1 /\ result[3].page = 2

(***************************************************************************)
(* C11: when the request for the full review behind a permalink fails (a   *)
(* timeout, a failed connection, a non-2xx status) the record is still     *)
(* appended, its text is "Error fetching full review", its other fields    *)
(* are those read from the container, and the page goes on.                *)
(***************************************************************************)
\* the full-review requests that failed: the transport raised, or the status
\* is not a 2xx one
FailedFullReviews ==
    {<<docs[j].page, docs[j].idx>> : j \in {i \in 1..Len(docs) :
        docs[i].kind = "full" /\ docs[i].doc.status # "200"}}

\* the fields of a record other than its text
OtherFields(data) == [f \in DOMAIN data \ {"text"} |-> data[f]]

C11_FetchFailedSentinel ==
    Imdb =>
      /\ \A j \in 1..Len(reviews) :
            <<reviews[j].page, reviews[j].idx>> \in FailedFullReviews
              => /\ reviews[j].data["text"] = <<"Error fetching full review">>
                 /\ reviews[j].page = pages_scraped
                      => OtherFields(reviews[j].data)
                           = FieldsRead(review_containers[reviews[j].idx].shape, 4)
      /\ \A f \in FailedFullReviews :
            (f[1] < pages_scraped \/ pc \in {"pagination", "while", "done"}
               \/ f[2] < container_idx)
              => \E j \in 1..Len(reviews) : <<reviews[j].page, reviews[j].idx>> = f

(***************************************************************************)
(* C12: a fragment that lacks an optional field (rating, title, reviewer,  *)
(* date, verified status, body) still gives a record, in which the key of  *)
(* that field is present and holds the sentinel declared for it; the       *)
(* missing field raises nothing and loses no record.                       *)
(***************************************************************************)
\* the page documents received by the running call
PageDocs == {j \in 1..Len(docs) : docs[j].kind \in {"page", "first", "json"}}

\* the fragment a record was extracted from
FragmentOf(r) ==
    LET j == CHOOSE i \in PageDocs : docs[i].page = r.page
    IN  docs[j].doc[r.idx]

\* the sentinels declared for the fields of an IMDb review
ImdbSentinelsHold(sh, data) ==
    /\ ~(sh.rating_element /\ sh.rating_value) => data["rating"] = "N/A"
    /\ ~sh.title_element => data["title"] = "No Title"
    /\ ~(sh.author_section /\ sh.author_link) => data["reviewer"] = "Anonymous"
    /\ ~(sh.author_section /\ sh.date_element) => data["date"] = "Unknown date"
    /\ ~(sh.author_section /\ sh.permalink_link /\ sh.href)
          => data["text"] = <<"No permalink available to fetch full review">>

\* the sentinels declared for the fields of a ShopClues review (the one of the
\* date is the empty string)
ShopSentinelsHold(sh, data) ==
    /\ ~sh.rating_span => data["rating"] = "N/A"
    /\ ~sh.reviewer.present => data["reviewer_name"] = <<"Anonymous">>
    /\ ~sh.date_elem => data["date"] = ""
    /\ ~sh.verified => data["verified_status"] = "N/A"
    /\ ~sh.review_text.present => data["review_content"] = <<"No content">>

\* the fragments <<page, index>> of the running call whose processing is over
Processed ==
    {f \in UNION {{<<docs[j].page, i>> : i \in 1..Len(docs[j].doc)} : j \in PageDocs} :
        \/ Shop
        \/ f[1] < pages_scraped
        \/ f[2] < container_idx
        \/ pc \in {"pagination", "while", "done"}}

\* the fragments of the running call for which a failure was logged
Faulted ==
    {<<faults[j][2], faults[j][3]>> : j \in {i \in 1..Len(faults) :
        faults[i][1] = ThisCall}}

C12_MissingFieldSentinel ==
    /\ \A j \in 1..Len(Accumulated) :
          LET r == Accumulated[j]
          IN  /\ Complete(r)
              /\ IF Imdb THEN ImdbSentinelsHold(FragmentOf(r).shape, r.data)
                         ELSE ShopSentinelsHold(FragmentOf(r).shape, r.data)
    /\ Processed \ Faulted \subseteq Origins(Accumulated)

\* a review container with none of the nodes has left a record of sentinels
C12_Witness ==
    /\ Imdb /\ outcome = "returned" /\ Len(result) = 1
    /\ FragmentOf(result[1]).shape = BareShape
    /\ result[1].data["date"] = "Unknown date"

(***************************************************************************)
(* C13: the command-line run ends with a non-zero exit status when the     *)
(* subject cannot be parsed (get_movie_id raised ValueError), and with     *)
(* status 0 when scrape_reviews returned, with records or with none.       *)
(***************************************************************************)
C13_ExitStatus ==
    (Imdb /\ pc = "exited") =>
        /\ (outcome = "raised" /\ raised = "ValueError") => exit_status # 0
        /\ outcome = "returned" => exit_status = 0

(***************************************************************************)
(* C14: after any sequence of scrape_product / fetch_all_reviews calls on  *)
(* one instance, the reviews held as the result of the latest call that    *)
(* returned (the returned list, and self.reviews) are records collected    *)
(* during that call, none left over from an earlier call.                  *)
(***************************************************************************)
C14_OwnResult ==
    (Shop /\ pc = "done" /\ outcome \in {"returned", "returned_true"}) =>
        /\ \A j \in 1..Len(result) : result[j].call = calls
        /\ \A j \in 1..Len(self_reviews) : self_reviews[j].call = calls

(***************************************************************************)
(* C15: an identifier given bare (tt and digits, nothing else) and the     *)
(* same identifier given inside a URL resolve to the same movie_id, so the *)
(* title request and the review-page requests of the two runs have the     *)
(* same targets.                                                           *)
(***************************************************************************)
\* s is an identifier: tt followed by one or more digits, nothing else
IsBareId(s) ==
    /\ Len(s) >= 3 /\ s[1] = "t" /\ s[2] = "t"
    /\ \A i \in 3..Len(s) : s[i] \in {"1", "2"}

\* the identifiers b of which s is a URL: s starts with its scheme (written x),
\* b is the first identifier in it and is followed by no further digit
UrlIds(s) ==
    {b \in {SubSeq(s, i, j) : i \in 2..Len(s), j \in 2..Len(s)} :
        /\ IsBareId(b)
        /\ s[1] = "x"
        /\ \E i \in 2..Len(s) :
              /\ i + Len(b) - 1 <= Len(s)
              /\ SubSeq(s, i, i + Len(b) - 1) = b
              /\ (i + Len(b) <= Len(s) => s[i + Len(b)] \notin {"1", "2"})
              /\ \A k \in 1..(i - 1) :
                    ~(k + 2 <= Len(s) /\ s[k] = "t" /\ s[k + 1] = "t"
                        /\ s[k + 2] \in {"1", "2"})}

\* the identifiers the subject stands for, bare or inside a URL
IdsOf(s) == (IF IsBareId(s) THEN {s} ELSE {}) \cup UrlIds(s)

\* the requests whose target is built from movie_id
IdRequests ==
    {j \in 1..Len(events) :
        events[j].ev = "get" /\ events[j].kind \in {"title", "reviews", "ajax"}}

C15_SameCanonicalId ==
    Imdb => \A b \in IdsOf(subject) :
              /\ pc # "get_movie_id" => (movie_id = b /\ raised # "ValueError")
              /\ \A j \in IdRequests : events[j].id = b

\* a run whose subject is a URL around an identifier has requested the title and
\* the first review page of that identifier
C15_Witness ==
    /\ Imdb /\ outcome = "returned"
    /\ UrlIds(subject) # {}
    /\ \E j \in IdRequests : events[j].kind = "reviews" /\ events[j].id \in UrlIds(subject)

(***************************************************************************)
(* C16: within one crawl (scrape_reviews, and fetch_all_reviews from its   *)
(* first page on) a page delay is taken between any two consecutive page   *)
(* requests, and no page delay is taken that is not followed by another    *)
(* page request.                                                           *)
(***************************************************************************)
\* the positions of the page requests among the events of the call
PageGetAt == {i \in 1..Len(events) : IsPageGet(events[i])}

\* the positions of the page delays
PageSleepAt == {i \in 1..Len(events) : events[i] = Sleep("page")}

C16_DelayBetweenFetches ==
    /\ \A i, j \in PageGetAt :
          (i < j /\ \A p \in PageGetAt : ~(i < p /\ p < j))
            => \E k \in PageSleepAt : i < k /\ k < j
    /\ pc = "done" => \A k \in PageSleepAt : \E j \in PageGetAt : k < j

(***************************************************************************)
(* C17: the full-review requests are issued inline, one at a time: only    *)
(* for a container whose markup holds a permalink, at most once per        *)
(* container, each right after its own short delay, and each answered (a   *)
(* text or a sentinel) before the next container is processed and before   *)
(* the next page is requested.                                             *)
(***************************************************************************)
\* the positions of the full-review requests among the events
FullGetAt == {k \in 1..Len(events) : events[k].ev = "get" /\ events[k].kind = "permalink"}

\* the answers to the full-review requests, in order of arrival
FullDocs == SelectSeq(docs, LAMBDA d : d.kind = "full")

\* the number of page requests issued before position k
PageGetsBefore(k) == Cardinality({i \in PageGetAt : i < k})

\* the markup of container i of page p holds a permalink
HoldsPermalink(p, i) ==
    \E j \in PageDocs :
        /\ docs[j].page = p /\ i \in 1..Len(docs[j].doc)
        /\ docs[j].doc[i].shape.author_section
        /\ docs[j].doc[i].shape.permalink_link
        /\ docs[j].doc[i].shape.href

C17_InlineFullReviews ==
    Imdb =>
      /\ \A k \in FullGetAt :
            /\ HoldsPermalink(events[k].id[1], events[k].id[2])
            /\ k > 1 /\ events[k - 1] = Sleep("review")
            /\ PageGetsBefore(k) = events[k].id[1]
      /\ \A k, m \in FullGetAt :
            k < m => \/ events[k].id[1] < events[m].id[1]
                     \/ /\ events[k].id[1] = events[m].id[1]
                        /\ events[k].id[2] < events[m].id[2]
      /\ Len(FullDocs) = Cardinality(FullGetAt)
      /\ \A k \in FullGetAt :
            LET d == FullDocs[Cardinality({m \in FullGetAt : m <= k})]
            IN  <<d.page, d.idx>> = events[k].id
      /\ \A j \in 1..Len(FullDocs) :
            \/ /\ pc = "append" /\ pages_scraped = FullDocs[j].page
               /\ container_idx = FullDocs[j].idx /\ "text" \in DOMAIN review_data
            \/ <<FullDocs[j].page, FullDocs[j].idx>> \in Origins(reviews)

\* two pages crawled, full reviews requested on both, one container without a
\* permalink among them
C17_Witness ==
    /\ Imdb /\ outcome = "returned" /\ PageGets = 2
    /\ \E k, m \in FullGetAt : events[k].id[1] = 1 /\ events[m].id[1] = 2
    /\ \E r \in Origins(reviews) : ~HoldsPermalink(r[1], r[2])

(***************************************************************************)
(* C18: a fallback chain tries its rules in order and takes the first one  *)
(* that finds a node whose trimmed text is not empty; a node with empty    *)
(* text counts as not found and the next rule is tried; when no rule       *)
(* matches the sentinel is returned.  For the title lookup of              *)
(* get_movie_title and the review text lookup on the permalink page.       *)
(***************************************************************************)
\* the rule has found a node whose trimmed text is not empty
Matches(n) == n.present /\ Strip(n.text) # <<>>

\* the node of the first rule that matches, NoNode when none does
FirstMatch(a, b, c) ==
    IF Matches(a) THEN a ELSE IF Matches(b) THEN b ELSE IF Matches(c) THEN c ELSE NoNode

C18_FirstNonEmptyWins ==
    Imdb =>
      /\ \A j \in 1..Len(docs) :
            (docs[j].kind = "title" /\ docs[j].doc.status = "200")
              => LET m == FirstMatch(docs[j].doc.hero, docs[j].doc.h1, docs[j].doc.wrapper)
                 IN  movie_title = IF m.present
                                     THEN Strip(RemoveYear(Strip(m.text)))
                                     ELSE movie_id
      /\ \A j \in 1..Len(docs), k \in 1..Len(reviews) :
            (/\ docs[j].kind = "full" /\ docs[j].doc.status = "200"
             /\ reviews[k].page = docs[j].page /\ reviews[k].idx = docs[j].idx)
              => LET m == FirstMatch(docs[j].doc.show_more, docs[j].doc.content,
                                     docs[j].doc.review_content)
                 IN  reviews[k].data["text"] = IF m.present
                                                 THEN Strip(m.text)
                                                 ELSE <<"Review text not available">>

(***************************************************************************)
(* C19: in fetch_all_reviews the product id is taken once from self.url    *)
(* and is the same in every follow-up request; the page numbers of the     *)
(* follow-up requests are 2, 3, 4, ... with none repeated or skipped; when *)
(* the first page has no load-more link or the URL holds no product id, no *)
(* follow-up request is issued.                                            *)
(***************************************************************************)
\* the follow-up requests of the running call, in order
JsonGets == SelectSeq(events, LAMBDA e : e.ev = "get" /\ e.kind = "json")

\* the whole runs of digits of a URL that stand right before .html
IdsBeforeHtml(u) ==
    {SubSeq(u, i, j) : i \in 1..Len(u), j \in 1..Len(u)} \cap
    {d \in UNION {[1..n -> {"1", "2"}] : n \in 1..Len(u)} :
        \E i \in 1..Len(u) :
            /\ i + Len(d) <= Len(u)
            /\ SubSeq(u, i, i + Len(d) - 1) = d
            /\ u[i + Len(d)] = "H"
            /\ (i > 1 => u[i - 1] \notin {"1", "2"})}

C19_CounterPagination ==
    Shop =>
      /\ \A k \in 1..Len(JsonGets) :
            /\ JsonGets[k].key = k + 1
            /\ JsonGets[k].id \in IdsBeforeHtml(self_url)
            /\ JsonGets[k].id = JsonGets[1].id
      /\ JsonGets # <<>> =>
            /\ pagelog # <<>> /\ pagelog[1].status = "ok" /\ pagelog[1].more = TRUE
            /\ IdsBeforeHtml(self_url) # {}

\* a call that has requested pages 2, 3 and 4 and returned
C19_Witness ==
    /\ Shop /\ pc = "done" /\ Len(JsonGets) = 3
    /\ JsonGets[3].key = 4

(***************************************************************************)
(* C20: in fetch_all_reviews a follow-up page with an empty or missing     *)
(* html payload, a status other than success, or no review extracted from  *)
(* it ends the crawl: no further request is issued, and the records        *)
(* returned are exactly those of the pages before it.                      *)
(***************************************************************************)
\* follow-up page i signals exhaustion
Exhausts(i) ==
    \/ pagelog[i].status \in {"nohtml", "emptyhtml", "non200"}
    \/ /\ pagelog[i].status = "ok"
       /\ pagelog[i].n = Cardinality({j \in FaultsOn(i) : faults[j][4] = "parse"})

C20_ExhaustedEndsCrawl ==
    Shop => \A i \in 2..Len(pagelog) :
              Exhausts(i) =>
                /\ i = Len(pagelog)
                /\ Len(JsonGets) = i - 1
                /\ pc = "done" /\ outcome \in {"returned", "returned_true"}
                /\ \A j \in 1..Len(result) : result[j].call = calls
                /\ Origins(result) = Fragments(i - 1) \ ParseFaulted(i - 1)
                /\ Len(result) = Cardinality(Origins(result))
                /\ self_reviews = result

\* the third follow-up page came without html after three pages of reviews
C20_Witness ==
    /\ Shop /\ pc = "done" /\ Len(pagelog) = 4
    /\ pagelog[4].status = "nohtml"
    /\ Len(result) >= 3

(***************************************************************************)
(* C21: in scrape_reviews the pagination key is replaced after every page: *)
(* the first page request carries no key and is the only one that does;    *)
(* the request for page n+1 carries exactly the key that page n exposed,   *)
(* so the key of an earlier page is never sent again; and between two      *)
(* pages the key held is the key of the page just read.                    *)
(***************************************************************************)
\* the page requests of the call, in the order they were issued
PageRequests == SelectSeq(events, IsPageGet)

C21_KeyReplaced ==
    Imdb =>
      /\ Len(PageRequests) = Len(pagelog)
      /\ \A n \in 1..Len(PageRequests) :
            IF n = 1
              THEN PageRequests[n] = Get("reviews", movie_id, None)
              ELSE /\ HasToken(pagelog[n - 1])
                   /\ PageRequests[n] = Get("ajax", movie_id, TokenOf(pagelog[n - 1]))
      /\ (pc = "while" /\ pages_scraped >= 1) => pagination_key = TokenOf(LastPage)

\* three pages were requested, the second with the key of the first page and
\* the third with the different key of the second page
C21_Witness ==
    /\ Imdb /\ Len(PageRequests) = 3 /\ Len(pagelog) = 3
    /\ TokenOf(pagelog[1]) = "k1" /\ TokenOf(pagelog[2]) = "k2"
    /\ PageRequests[2].key = "k1" /\ PageRequests[3].key = "k2"

====
